---- MODULE Spec2Model ----
(***************************************************************************)
(* A model of automate_tracker.py: one run of process_problems_from_gcs    *)
(* (read the input blob, validate the line count, for each triple parse    *)
(* the date, resolve the name, build the row, append it, then archive the  *)
(* blob), together with get_problem_name_from_gemini.                      *)
(*                                                                         *)
(* Text is modelled character by character: a Python str is a sequence of  *)
(* one-character strings, so that strip, splitlines, replace, strptime and *)
(* strftime are computed rather than assumed.  The three sentinel names    *)
(* the resolver returns are kept as sequences holding the literal as a     *)
(* single element.                                                         *)
(***************************************************************************)
EXTENDS Integers, Sequences, FiniteSets, TLC

VARIABLES
    pc,             \* position in process_problems_from_gcs
    env,            \* GCS_BUCKET_NAME is set (module configuration, line 29)
    bucket,         \* the storage bucket: blob name -> text
    bucket0,        \* the bucket as it was when the run began
    all_lines,      \* line 126
    num_problems,   \* line 139
    i,              \* the loop variable of line 142
    date_obj,       \* first_practiced_date_obj, line 152
    problem_name,   \* line 158
    requests,       \* the name-resolution requests made so far (requests.post)
    attempts,       \* the calls of worksheet.append_row so far
    sheet,          \* the rows the worksheet holds
    error           \* the exception the run ended with, "none" if none

vars == <<pc, env, bucket, bucket0, all_lines, num_problems, i,
          date_obj, problem_name, requests, attempts, sheet, error>>

-----------------------------------------------------------------------------
(* Bounds of the model.                                                    *)

\* The longest input, in non-blank lines.
MaxLines == 6

-----------------------------------------------------------------------------
(* str                                                                     *)

Whitespace == {" ", "\t", "\n", "\r"}

Digits == {"0", "1", "2", "3", "4", "5", "6", "7", "8", "9"}

DigitVal(c) ==
    CASE c = "0" -> 0 [] c = "1" -> 1 [] c = "2" -> 2 [] c = "3" -> 3
      [] c = "4" -> 4 [] c = "5" -> 5 [] c = "6" -> 6 [] c = "7" -> 7
      [] c = "8" -> 8 [] c = "9" -> 9

DigitChar(n) ==
    CASE n = 0 -> "0" [] n = 1 -> "1" [] n = 2 -> "2" [] n = 3 -> "3"
      [] n = 4 -> "4" [] n = 5 -> "5" [] n = 6 -> "6" [] n = 7 -> "7"
      [] n = 8 -> "8" [] n = 9 -> "9"

\* str.strip(): leading and trailing whitespace removed.
RECURSIVE LStrip(_)
LStrip(s) ==
    IF s # <<>> /\ Head(s) \in Whitespace THEN LStrip(Tail(s)) ELSE s

RECURSIVE RStrip(_)
RStrip(s) ==
    IF s # <<>> /\ s[Len(s)] \in Whitespace
    THEN RStrip(SubSeq(s, 1, Len(s) - 1))
    ELSE s

Strip(s) == RStrip(LStrip(s))

\* Whether pat occurs in s at position p.
OccursAt(s, pat, p) ==
    /\ p + Len(pat) - 1 <= Len(s)
    /\ SubSeq(s, p, p + Len(pat) - 1) = pat

\* str.replace(pat, ""): the non-overlapping occurrences of pat, found left
\* to right, removed.
RECURSIVE Remove(_, _)
Remove(s, pat) ==
    IF s = <<>> THEN <<>>
    ELSE IF OccursAt(s, pat, 1)
         THEN Remove(SubSeq(s, Len(pat) + 1, Len(s)), pat)
         ELSE <<Head(s)>> \o Remove(Tail(s), pat)

\* The index of the first line break of s, 0 when it has none.
RECURSIVE FirstBreak(_, _)
FirstBreak(s, p) ==
    IF p > Len(s) THEN 0
    ELSE IF s[p] \in {"\n", "\r"} THEN p
    ELSE FirstBreak(s, p + 1)

\* str.splitlines(): the lines of s without their line breaks ("\n", "\r"
\* and "\r\n"); no empty last line after a final break.
RECURSIVE SplitLines(_)
SplitLines(s) ==
    IF s = <<>> THEN <<>>
    ELSE LET k == FirstBreak(s, 1)
         IN  IF k = 0 THEN <<s>>
             ELSE LET after == IF s[k] = "\r" /\ k < Len(s) /\ s[k + 1] = "\n"
                               THEN k + 2 ELSE k + 1
                  IN  <<SubSeq(s, 1, k - 1)>>
                        \o SplitLines(SubSeq(s, after, Len(s)))

\* [line.strip() for line in lines]
RECURSIVE StripAll(_)
StripAll(ls) ==
    IF ls = <<>> THEN <<>> ELSE <<Strip(Head(ls))>> \o StripAll(Tail(ls))

IsNonBlank(line) == Strip(line) # <<>>

\* As StrippedNonBlankLines, had the comprehension no "if line.strip()".
StrippedLinesUnfiltered(content) == StripAll(SplitLines(content))

\* Line 126: [line.strip() for line in input_content.splitlines() if line.strip()]
StrippedNonBlankLines(content) ==
    StripAll(SelectSeq(SplitLines(content), IsNonBlank))

-----------------------------------------------------------------------------
(* datetime.date                                                           *)

IsLeap(y) == y % 4 = 0 /\ (y % 100 # 0 \/ y % 400 = 0)

DaysInMonth(y, m) ==
    IF m = 2 THEN (IF IsLeap(y) THEN 29 ELSE 28)
    ELSE IF m \in {4, 6, 9, 11} THEN 30 ELSE 31

\* _DAYS_BEFORE_MONTH[m] of a non-leap year.
DaysBeforeMonthCommon ==
    <<0, 31, 59, 90, 120, 151, 181, 212, 243, 273, 304, 334>>

DaysBeforeMonth(y, m) ==
    DaysBeforeMonthCommon[m] + (IF m > 2 /\ IsLeap(y) THEN 1 ELSE 0)

DaysBeforeYear(y) ==
    LET p == y - 1
    IN  p * 365 + (p \div 4) - (p \div 100) + (p \div 400)

\* date.toordinal(): 1 for 0001-01-01.
ToOrdinal(d) == DaysBeforeYear(d.y) + DaysBeforeMonth(d.y, d.m) + d.d

\* date.max.toordinal(), the ordinal of 9999-12-31.
MaxOrdinal == ToOrdinal([y |-> 9999, m |-> 12, d |-> 31])

\* date.fromordinal(n), the library's 400/100/4/1-year cycle computation.
FromOrdinal(n) ==
    LET n0   == n - 1
        n400 == n0 \div 146097
        r400 == n0 % 146097
        n100 == r400 \div 36524
        r100 == r400 % 36524
        n4   == r100 \div 1461
        r4   == r100 % 1461
        n1   == r4 \div 365
        r1   == r4 % 365
        year == n400 * 400 + 1 + n100 * 100 + n4 * 4 + n1
    IN  IF n1 = 4 \/ n100 = 4
        THEN [y |-> year - 1, m |-> 12, d |-> 31]
        ELSE LET leap  == n1 = 3 /\ (n4 # 24 \/ n100 = 3)
                 est   == (r1 + 50) \div 32
                 prec  == DaysBeforeMonthCommon[est]
                            + (IF est > 2 /\ leap THEN 1 ELSE 0)
                 month == IF prec > r1 THEN est - 1 ELSE est
                 before == DaysBeforeMonthCommon[month]
                            + (IF month > 2 /\ leap THEN 1 ELSE 0)
             IN  [y |-> year, m |-> month, d |-> r1 - before + 1]

\* date + timedelta(days=k): a record with ok = FALSE stands for the
\* OverflowError raised when the result is outside date.min .. date.max.
AddDays(d, k) ==
    LET o == ToOrdinal(d) + k
    IN  IF 0 < o /\ o <= MaxOrdinal
        THEN [ok |-> TRUE, date |-> FromOrdinal(o)]
        ELSE [ok |-> FALSE]

\* n as two digits, and as four.
TwoDigits(n) == <<DigitChar(n \div 10), DigitChar(n % 10)>>

FourDigits(n) ==
    <<DigitChar(n \div 1000), DigitChar((n \div 100) % 10),
      DigitChar((n \div 10) % 10), DigitChar(n % 10)>>

\* date.strftime("%Y-%m-%d"), for the years from 1000 on.
Strftime(d) ==
    FourDigits(d.y) \o <<"-">> \o TwoDigits(d.m) \o <<"-">> \o TwoDigits(d.d)

-----------------------------------------------------------------------------
(* datetime.strptime(s, "%d-%m-%Y")                                        *)

NonZeroDigits == Digits \ {"0"}

\* A regular expression is a sequence of groups, a group an ordered list of
\* alternatives, an alternative a sequence of character classes.
\* (?P<d>3[0-1]|[1-2]\d|0[1-9]|[1-9]| [1-9])
DayGroup ==
    << <<{"3"}, {"0", "1"}>>, <<{"1", "2"}, Digits>>, <<{"0"}, NonZeroDigits>>,
       <<NonZeroDigits>>, <<{" "}, NonZeroDigits>> >>

\* (?P<m>1[0-2]|0[1-9]|[1-9])
MonthGroup ==
    << <<{"1"}, {"0", "1", "2"}>>, <<{"0"}, NonZeroDigits>>, <<NonZeroDigits>> >>

\* (?P<Y>\d\d\d\d)
YearGroup == << <<Digits, Digits, Digits, Digits>> >>

Hyphen == << <<{"-"}>> >>

\* The expression the format "%d-%m-%Y" compiles to.
DateRegex == <<DayGroup, Hyphen, MonthGroup, Hyphen, YearGroup>>

MatchAt(s, p, alt) ==
    /\ p + Len(alt) - 1 <= Len(s)
    /\ \A k \in 1..Len(alt) : s[p + k - 1] \in alt[k]

\* re.match: the groups matched from position p on, each group taking its
\* first alternative that lets the rest match; the positions after each
\* group, or ok = FALSE.  TryFrom(s, p, groups, a) tries the alternatives
\* of the first group from the a-th on.
RECURSIVE TryFrom(_, _, _, _)
TryFrom(s, p, groups, a) ==
    IF groups = <<>> THEN [ok |-> TRUE, ends |-> <<>>]
    ELSE IF a > Len(Head(groups)) THEN [ok |-> FALSE]
    ELSE LET alt  == Head(groups)[a]
             rest == TryFrom(s, p + Len(alt), Tail(groups), 1)
         IN  IF MatchAt(s, p, alt) /\ rest.ok
             THEN [ok |-> TRUE, ends |-> <<p + Len(alt)>> \o rest.ends]
             ELSE TryFrom(s, p, groups, a + 1)

MatchFrom(s, p, groups) == TryFrom(s, p, groups, 1)

\* int(): the digits of s read in base ten, whitespace around them ignored.
RECURSIVE IntOf(_)
IntOf(s) ==
    LET t == Strip(s)
    IN  IF t = <<>> THEN 0
        ELSE 10 * IntOf(SubSeq(t, 1, Len(t) - 1)) + DigitVal(t[Len(t)])

\* datetime.strptime(s, "%d-%m-%Y").date(): ok = FALSE stands for the
\* ValueError raised when s does not match, when text remains after the
\* match, or when the fields are no calendar date.
Strptime(s) ==
    LET found == MatchFrom(s, 1, DateRegex)
    IN  IF ~found.ok THEN [ok |-> FALSE]
        ELSE IF found.ends[5] # Len(s) + 1 THEN [ok |-> FALSE]
        ELSE LET day   == IntOf(SubSeq(s, 1, found.ends[1] - 1))
                 month == IntOf(SubSeq(s, found.ends[2], found.ends[3] - 1))
                 year  == IntOf(SubSeq(s, found.ends[4], found.ends[5] - 1))
             IN  IF year < 1 \/ day > DaysInMonth(year, month)
                 THEN [ok |-> FALSE]
                 ELSE [ok |-> TRUE, date |-> [y |-> year, m |-> month, d |-> day]]

-----------------------------------------------------------------------------
(* The response of the text-generation service, as requests.post,          *)
(* raise_for_status and response.json() hand it to the resolver: an        *)
(* exception of some class, or the decoded JSON value.                     *)

JNull == [t |-> "null"]
JStr(s) == [t |-> "str", s |-> s]
JList(xs) == [t |-> "list", xs |-> xs]
JDict(f) == [t |-> "dict", f |-> f]

Raised(cls) == [kind |-> "raise", cls |-> cls]
Decoded(v) == [kind |-> "json", result |-> v]

\* An exception raised while a JSON value is taken apart.
PyError == [t |-> "error"]

\* bool(v)
Truthy(v) ==
    CASE v.t = "null" -> FALSE
      [] v.t = "str"  -> v.s # <<>>
      [] v.t = "list" -> v.xs # <<>>
      [] v.t = "dict" -> DOMAIN v.f # {}

\* v.get(key): AttributeError unless v is a dict.
PyGet(v, key) ==
    IF v.t # "dict" THEN PyError
    ELSE IF key \in DOMAIN v.f THEN v.f[key] ELSE JNull

\* v[0] of a non-empty v: KeyError on a dict, whose keys are strings.
PyFirst(v) ==
    CASE v.t = "list" -> v.xs[1]
      [] v.t = "str"  -> JStr(<<v.s[1]>>)
      [] OTHER        -> PyError

\* v[key] for a string key: KeyError or TypeError unless v is a dict with it.
PyItem(v, key) ==
    IF v.t = "dict" /\ key \in DOMAIN v.f THEN v.f[key] ELSE PyError

-----------------------------------------------------------------------------
(* get_problem_name_from_gemini                                            *)

UnknownProblem == <<"Unknown Problem (via Gemini)">>
ErrorFetchingName == <<"Error Fetching Name (via Gemini)">>
ErrorGeneric == <<"Error (via Gemini)">>

\* The classes of requests.exceptions.RequestException the call can raise.
RequestExceptions == {"ConnectionError", "Timeout", "HTTPError"}

\* The character U+0060, which a TLA+ string cannot hold.
Backtick == "U+0060"

CodeFence == <<Backtick, Backtick, Backtick>>
JsonWord == <<"j", "s", "o", "n">>
NameLabel ==
    <<"P", "r", "o", "b", "l", "e", "m", " ", "N", "a", "m", "e", ":">>

\* Lines 85-87.
CleanName(text) ==
    Strip(Remove(Remove(Remove(Strip(text), CodeFence), JsonWord), NameLabel))

\* As HandleException, without the clause for json.JSONDecodeError.
HandleExceptionNoJsonClause(cls) ==
    IF cls \in RequestExceptions THEN ErrorFetchingName ELSE ErrorGeneric

\* Lines 95-103: the except clauses, in order.
HandleException(cls) ==
    IF cls \in RequestExceptions THEN ErrorFetchingName
    ELSE IF cls = "JSONDecodeError" THEN ErrorFetchingName
    ELSE ErrorGeneric

\* Lines 80-93: the name taken out of the decoded result; an exception
\* raised on the way is of no class the first two clauses catch.
ExtractName(result) ==
    LET candidates == PyGet(result, "candidates")
    IN  IF candidates.t = "error" THEN HandleException("AttributeError")
        ELSE IF ~Truthy(candidates) THEN UnknownProblem
        ELSE LET first == PyFirst(candidates)
                 content == IF first.t = "error" THEN PyError
                            ELSE PyGet(first, "content")
             IN  IF content.t = "error" THEN HandleException("AttributeError")
                 ELSE IF ~Truthy(content) THEN UnknownProblem
                 ELSE LET parts == PyGet(content, "parts")
                      IN  IF parts.t = "error"
                          THEN HandleException("AttributeError")
                          ELSE IF ~Truthy(parts) THEN UnknownProblem
                          ELSE LET part == PyFirst(parts)
                                   text == IF part.t = "error" THEN PyError
                                           ELSE PyItem(part, "text")
                               IN  IF text.t # "str"
                                   THEN HandleException("AttributeError")
                                   ELSE CleanName(text.s)

\* Lines 73-103.  The link goes into the prompt and decides nothing here.
get_problem_name_from_gemini(problem_link, response) ==
    IF response.kind = "raise" THEN HandleException(response.cls)
    ELSE ExtractName(response.result)

-----------------------------------------------------------------------------
(* The row of one problem, lines 160-178                                   *)

\* As RevisionOffsets, were the intervals not added up.
RevisionOffsetsNotCumulative == <<1, 3, 7, 15, 30>>

\* timedelta(days=1), (days=1 + 3), ... of lines 162-166.
RevisionOffsets == <<1, 1 + 3, 1 + 3 + 7, 1 + 3 + 7 + 15, 1 + 3 + 7 + 15 + 30>>

\* row_data; ok = FALSE stands for the OverflowError of a revision date
\* after date.max.
RowData(topic_name, name, problem_link, d) ==
    LET revs == [k \in 1..5 |-> AddDays(d, RevisionOffsets[k])]
    IN  IF \E k \in 1..5 : ~revs[k].ok THEN [ok |-> FALSE]
        ELSE [ok  |-> TRUE,
              row |-> <<topic_name, name, problem_link, Strftime(d)>>
                        \o [k \in 1..5 |-> Strftime(revs[k].date)]]

-----------------------------------------------------------------------------
(* Blob names                                                              *)

\* INPUT_BLOB_NAME, line 30.
INPUT_BLOB_NAME == <<"problems.txt">>

\* PROCESSED_BLOB_PREFIX, line 31.
PROCESSED_BLOB_PREFIX == "processed_problems/"

\* Line 193: prefix, base name without ".txt", "_", timestamp, ".txt".
ProcessedBlobName(timestamp) ==
    <<PROCESSED_BLOB_PREFIX, "problems", "_", timestamp, ".txt">>

\* The values datetime.now().strftime("%Y%m%d_%H%M%S") takes in the model.
Timestamps == {"20240301_093000"}

\* Line 190: the condition under which the input is archived.
ShouldArchive(n) == n > 0

\* As AfterBadDate, were the "continue" a "break".
AfterBadDateBreak(k) == [pc |-> "archive", i |-> k]

\* Lines 153-156: after a date that does not parse, the loop goes on with
\* the next triple.
AfterBadDate(k) == [pc |-> "loop", i |-> k + 1]

\* As BadLineCount, were the count not checked.
BadLineCountIgnored(n) == FALSE

\* Line 133: the line count is no multiple of three.
BadLineCount(n) == n % 3 # 0

-----------------------------------------------------------------------------
(* The inputs of the model                                                 *)

Link1 == <<"u", "/", "1">>
Link2 == <<"u", "/", "2">>
TopicA == <<"D", "P">>
TopicB == <<"T", "r", "e", "e">>

\* 27-02-2024: a date before the leap day.
DateLeap == <<"2", "7", "-", "0", "2", "-", "2", "0", "2", "4">>
\* 5-11-9999: one-digit day; the last date whose fifth revision exists.
DateShort == <<"5", "-", "1", "1", "-", "9", "9", "9", "9">>
\* 06-11-9999: its fifth revision date would be after 9999-12-31.
DateLate == <<"0", "6", "-", "1", "1", "-", "9", "9", "9", "9">>
\* 2024/01/01: not the format.
DateSlash == <<"2", "0", "2", "4", "/", "0", "1", "/", "0", "1">>
\* 29-02-2023: the format, but no calendar date.
DateNoDay == <<"2", "9", "-", "0", "2", "-", "2", "0", "2", "3">>

\* The problems of the model, each a link and its topic.
Problems == {<<Link1, TopicA>>, <<Link2, TopicB>>}
DateStrings == {DateLeap, DateShort, DateLate, DateSlash, DateNoDay}

\* The three lines of one problem: link, topic, date string.
TripleLines == {<<p[1], p[2], d>> : p \in Problems, d \in DateStrings}

\* The inputs of n lines: whole triples, the same one twice included, and
\* the first lines of one more when n is no multiple of three.
RECURSIVE LinesOfLen(_)
LinesOfLen(n) ==
    IF n = 0 THEN {<<>>}
    ELSE IF n < 3 THEN {SubSeq(t, 1, n) : t \in TripleLines}
    ELSE {t \o rest : t \in TripleLines, rest \in LinesOfLen(n - 3)}

\* The text of a file with the lines ls: plainly, one line after another,
\* or padded: three blank lines first, then each line within whitespace,
\* ended by "\r\n" and followed by a line of blanks.
RECURSIVE Render(_, _)
Render(ls, padded) ==
    IF ls = <<>> THEN (IF padded THEN <<" ", "\n", "\t", "\n", "\n">> ELSE <<>>)
    ELSE LET init == SubSeq(ls, 1, Len(ls) - 1)
             line == ls[Len(ls)]
         IN  IF padded
             THEN Render(init, padded)
                    \o <<" ">> \o line \o <<"\t", "\r", "\n", " ", " ", "\n">>
             ELSE Render(init, padded) \o line \o <<"\n">>

InputContents ==
    {Render(ls, padded) :
        ls \in UNION {LinesOfLen(n) : n \in 0..MaxLines}, padded \in BOOLEAN}

TextPlain == <<"T", "w", "o">>
\* ```json\nProblem Name: A\n```
TextFenced ==
    CodeFence \o JsonWord \o <<"\n">> \o NameLabel \o <<" ", "A", "\n">>
      \o CodeFence
\* ```json```
TextOnlyFence == CodeFence \o JsonWord \o CodeFence

PartsOf(parts) ==
    JDict([candidates |-> JList(<<JDict([content |->
                                    JDict([parts |-> parts])])>>)])

TextResponse(text) ==
    Decoded(PartsOf(JList(<<JDict([text |-> JStr(text)])>>)))

\* What one request to the service can come back with.
Responses ==
    { Raised("ConnectionError"), Raised("HTTPError"),
      Raised("JSONDecodeError"),
      Decoded(JList(<<>>)),
      Decoded(JDict(<<>>)),
      Decoded(PartsOf(JList(<<>>))),
      Decoded(PartsOf(JList(<<JDict(<<>>)>>))),
      TextResponse(TextPlain), TextResponse(TextFenced),
      TextResponse(TextOnlyFence) }

-----------------------------------------------------------------------------
(* process_problems_from_gcs                                               *)

NoDate == [y |-> 0, m |-> 0, d |-> 0]

Init ==
    /\ pc = "start"
    /\ env \in BOOLEAN
    /\ bucket \in {INPUT_BLOB_NAME :> content : content \in InputContents}
                  \cup {<<>>}
    /\ bucket0 = bucket
    /\ all_lines = <<>>
    /\ num_problems = 0
    /\ i = 0
    /\ date_obj = NoDate
    /\ problem_name = <<>>
    /\ requests = <<>>
    /\ attempts = <<>>
    /\ sheet = <<>>
    /\ error = "none"

problem_link == all_lines[i * 3 + 1]
topic_name == all_lines[i * 3 + 2]
first_practiced_date_str == all_lines[i * 3 + 3]

\* Lines 112-122: the configuration and the blob's existence.  The storage
\* client's calls are outside the try: an exception of theirs leaves the
\* function.
Start ==
    /\ pc = "start"
    /\ IF ~env THEN pc' = "done"
       ELSE \E fails \in BOOLEAN :
              pc' = IF fails THEN "raised"
                    ELSE IF INPUT_BLOB_NAME \notin DOMAIN bucket THEN "done"
                    ELSE "download"
    /\ UNCHANGED <<env, bucket, bucket0, all_lines, num_problems, i,
                   date_obj, problem_name, requests, attempts, sheet, error>>

\* Lines 125-140: the lines read and counted.
Download ==
    /\ pc = "download"
    /\ \E fails \in BOOLEAN :
         IF fails
         THEN /\ error' = "download"
              /\ pc' = "done"
              /\ UNCHANGED <<all_lines, num_problems>>
         ELSE LET lines == StrippedNonBlankLines(bucket[INPUT_BLOB_NAME])
                  num_lines == Len(lines)
              IN  /\ all_lines' = lines
                  /\ error' = error
                  /\ IF num_lines = 0 \/ BadLineCount(num_lines)
                     THEN pc' = "done" /\ num_problems' = num_problems
                     ELSE pc' = "loop" /\ num_problems' = num_lines \div 3
    /\ UNCHANGED <<env, bucket, bucket0, i, date_obj, problem_name,
                   requests, attempts, sheet>>

\* Lines 142-156: the next triple, and its date parsed.
ParseDate ==
    /\ pc = "loop"
    /\ IF i >= num_problems
       THEN pc' = "archive" /\ UNCHANGED <<i, date_obj>>
       ELSE LET parsed == Strptime(first_practiced_date_str)
            IN  IF parsed.ok
                THEN pc' = "resolve" /\ date_obj' = parsed.date /\ i' = i
                ELSE /\ pc' = AfterBadDate(i).pc
                     /\ i' = AfterBadDate(i).i
                     /\ date_obj' = date_obj
    /\ UNCHANGED <<env, bucket, bucket0, all_lines, num_problems,
                   problem_name, requests, attempts, sheet, error>>

\* Line 158: one request, whatever comes back.
ResolveName ==
    /\ pc = "resolve"
    /\ \E response \in Responses :
         /\ problem_name' = get_problem_name_from_gemini(problem_link, response)
         /\ requests' = Append(requests, [idx |-> i, link |-> problem_link,
                                          response |-> response])
    /\ pc' = "append"
    /\ UNCHANGED <<env, bucket, bucket0, all_lines, num_problems, i,
                   date_obj, attempts, sheet, error>>

\* Lines 160-185: the row built and appended; a failed append is printed
\* and the loop goes on.
AppendRow ==
    /\ pc = "append"
    /\ LET built == RowData(topic_name, problem_name, problem_link, date_obj)
       IN  IF ~built.ok
           THEN /\ error' = "overflow"
                /\ pc' = "done"
                /\ UNCHANGED <<i, attempts, sheet>>
           ELSE \E appended \in BOOLEAN :
                  /\ attempts' = Append(attempts, [idx |-> i, row |-> built.row,
                                                   ok |-> appended])
                  /\ sheet' = IF appended THEN Append(sheet, built.row)
                              ELSE sheet
                  /\ i' = i + 1
                  /\ pc' = "loop"
                  /\ error' = error
    /\ UNCHANGED <<env, bucket, bucket0, all_lines, num_problems,
                   date_obj, problem_name, requests>>

\* Lines 190-202, 209-210: the input copied to its archived name.
ArchiveCopy ==
    /\ pc = "archive"
    /\ IF ShouldArchive(num_problems)
       THEN \E timestamp \in Timestamps, fails \in BOOLEAN :
              IF fails
              THEN error' = "copy" /\ pc' = "done" /\ bucket' = bucket
              ELSE /\ bucket' = bucket @@ (ProcessedBlobName(timestamp)
                                             :> bucket[INPUT_BLOB_NAME])
                   /\ pc' = "delete"
                   /\ error' = error
       ELSE pc' = "done" /\ UNCHANGED <<bucket, error>>
    /\ UNCHANGED <<env, bucket0, all_lines, num_problems, i, date_obj,
                   problem_name, requests, attempts, sheet>>

\* Lines 204-208: the original deleted.
ArchiveDelete ==
    /\ pc = "delete"
    /\ \E fails \in BOOLEAN :
         IF fails
         THEN error' = "delete" /\ bucket' = bucket
         ELSE /\ bucket' = [b \in DOMAIN bucket \ {INPUT_BLOB_NAME} |-> bucket[b]]
              /\ error' = error
    /\ pc' = "done"
    /\ UNCHANGED <<env, bucket0, all_lines, num_problems, i, date_obj,
                   problem_name, requests, attempts, sheet>>

Next ==
    \/ Start
    \/ Download
    \/ ParseDate
    \/ ResolveName
    \/ AppendRow
    \/ ArchiveCopy
    \/ ArchiveDelete

Spec == Init /\ [][Next]_vars

-----------------------------------------------------------------------------
(* What the properties below are stated with                               *)

\* The lines of a text that hold a character other than whitespace.
NonBlankCount(content) ==
    LET ls == SplitLines(content)
    IN  Cardinality({k \in 1..Len(ls) :
                       \E p \in 1..Len(ls[k]) : ls[k][p] \notin Whitespace})

\* The text the input blob held when the run began.
InputText == IF INPUT_BLOB_NAME \in DOMAIN bucket0
             THEN bucket0[INPUT_BLOB_NAME] ELSE <<>>

\* The run read the input: the blob was there and its download went well.
InputRead ==
    /\ env
    /\ INPUT_BLOB_NAME \in DOMAIN bucket0
    /\ pc \notin {"start", "download", "raised"}
    /\ error # "download"

\* The triples of a batch of well-formed length, numbered from 0.
TripleCount == Len(all_lines) \div 3
TripleIds == 0..(TripleCount - 1)
LinkOf(j) == all_lines[3 * j + 1]
TopicOf(j) == all_lines[3 * j + 2]
DateStringOf(j) == all_lines[3 * j + 3]
Parsable(j) == Strptime(DateStringOf(j)).ok
DateOf(j) == Strptime(DateStringOf(j)).date

WellFormedBatch ==
    InputRead /\ all_lines # <<>> /\ Len(all_lines) % 3 = 0

Requested(j) == \E k \in 1..Len(requests) : requests[k].idx = j
Attempted(j) == \E k \in 1..Len(attempts) : attempts[k].idx = j
RequestOf(j) == requests[CHOOSE k \in 1..Len(requests) : requests[k].idx = j]

\* The copy exists at a timestamped destination.
CopyExists ==
    \E ts \in Timestamps : ProcessedBlobName(ts) \in DOMAIN bucket
OriginalExists == INPUT_BLOB_NAME \in DOMAIN bucket

\* Archived: the text copied to the destination and the original deleted.
Archived ==
    /\ ~OriginalExists
    /\ \E ts \in Timestamps :
         /\ ProcessedBlobName(ts) \in DOMAIN bucket
         /\ bucket[ProcessedBlobName(ts)] = InputText

\* The first day of the month after that of a calendar date.
NextMonthStart(d) ==
    IF d.m < 12 THEN [y |-> d.y, m |-> d.m + 1, d |-> 1]
    ELSE [y |-> d.y + 1, m |-> 1, d |-> 1]

\* The date n days after a calendar date, counted through the months.
RECURSIVE DaysLater(_, _)
DaysLater(d, n) ==
    IF d.d + n <= DaysInMonth(d.y, d.m) THEN [d EXCEPT !.d = d.d + n]
    ELSE DaysLater(NextMonthStart(d), n - (DaysInMonth(d.y, d.m) - d.d + 1))

\* The date a YYYY-MM-DD field of a row reads as.
IsoDate(f) ==
    [y |-> 1000 * DigitVal(f[1]) + 100 * DigitVal(f[2]) + 10 * DigitVal(f[3])
             + DigitVal(f[4]),
     m |-> 10 * DigitVal(f[6]) + DigitVal(f[7]),
     d |-> 10 * DigitVal(f[9]) + DigitVal(f[10])]

IsIsoField(f) ==
    /\ Len(f) = 10
    /\ f[5] = "-" /\ f[8] = "-"
    /\ \A p \in {1, 2, 3, 4, 6, 7, 9, 10} : f[p] \in Digits

Before(a, b) ==
    \/ a.y < b.y
    \/ a.y = b.y /\ a.m < b.m
    \/ a.y = b.y /\ a.m = b.m /\ a.d < b.d

-----------------------------------------------------------------------------
(* C1 *)

\* C1: at the end of a run whose archival steps did not themselves fail,
\* the input is archived (copied to the timestamped destination, the
\* original deleted) if and only if at least one row was appended to the
\* tracker.
C1_ArchivedIffRowAppended ==
    (pc = "done" /\ error \notin {"copy", "delete"})
        => (Archived <=> sheet # <<>>)

-----------------------------------------------------------------------------
(* C2 *)

\* C2: when the number of non-blank lines of the input is not zero and no
\* multiple of three, no row is ever appended or submitted, no
\* name-resolution request is made, and the bucket stays as it was: the
\* input neither copied nor deleted.
C2_BadCountNoEffect ==
    LET n == NonBlankCount(InputText)
    IN  (n # 0 /\ n % 3 # 0)
        => /\ sheet = <<>>
           /\ attempts = <<>>
           /\ requests = <<>>
           /\ bucket = bucket0
           /\ pc \notin {"loop", "resolve", "append", "archive", "delete"}
           /\ error \notin {"copy", "delete"}

\* A run that read an input of four or five non-blank lines and ended.
C2_Witness ==
    /\ pc = "done"
    /\ InputRead
    /\ Len(all_lines) > 3
    /\ Len(all_lines) % 3 # 0

-----------------------------------------------------------------------------
(* C3 *)

\* C3: when the input has no non-blank line, the run does nothing: no row
\* appended or submitted, no request made, the bucket as it was, and no
\* copy or delete attempted.
C3_BlankInputNoOp ==
    NonBlankCount(InputText) = 0
        => /\ sheet = <<>>
           /\ attempts = <<>>
           /\ requests = <<>>
           /\ bucket = bucket0
           /\ pc # "delete"
           /\ error \notin {"copy", "delete"}

\* A run that read an input of blank lines only, and ended.
C3_Witness ==
    /\ pc = "done"
    /\ InputRead
    /\ InputText # <<>>
    /\ NonBlankCount(InputText) = 0

-----------------------------------------------------------------------------
(* C4 *)

\* C4: every row submitted to the tracker, for a triple whose date string
\* parses to D, has nine fields: the fourth reads D and the fifth to ninth
\* read D+1, D+4, D+11, D+26 and D+56 days, each later than the one before,
\* whatever name the resolver returned and whatever the other triples are.
C4_RevisionSchedule ==
    \A k \in 1..Len(attempts) :
        LET row == attempts[k].row
            D   == DateOf(attempts[k].idx)
            due == <<1, 4, 11, 26, 56>>
        IN  /\ Len(row) = 9
            /\ \A f \in 4..9 : IsIsoField(row[f])
            /\ IsoDate(row[4]) = D
            /\ \A r \in 1..5 : IsoDate(row[4 + r]) = DaysLater(D, due[r])
            /\ \A f \in 4..8 : Before(IsoDate(row[f]), IsoDate(row[f + 1]))

\* Two rows submitted, the first for 27-02-2024 (its revisions cross the
\* leap day), the second for 5-11-9999, with different resolver results.
C4_Witness ==
    /\ Len(attempts) = 2
    /\ DateStringOf(attempts[1].idx) = DateLeap
    /\ DateStringOf(attempts[2].idx) = DateShort
    /\ attempts[1].row[2] # attempts[2].row[2]

-----------------------------------------------------------------------------
(* C5 *)

\* The string is two digits, "-", two digits, "-", four digits.
MatchesDDMMYYYY(s) ==
    /\ Len(s) = 10
    /\ s[3] = "-" /\ s[6] = "-"
    /\ \A p \in {1, 2, 4, 5, 7, 8, 9, 10} : s[p] \in Digits

-----------------------------------------------------------------------------
(* C6 *)

\* The request failed in transport: no response, or an error status.
TransportFailure(response) ==
    response.kind = "raise" /\ response.cls \in RequestExceptions

\* The body was no JSON.
MalformedBody(response) ==
    response.kind = "raise" /\ response.cls = "JSONDecodeError"

IsEmpty(v) ==
    \/ v.t = "null"
    \/ v.t = "str" /\ Len(v.s) = 0
    \/ v.t = "list" /\ Len(v.xs) = 0
    \/ v.t = "dict" /\ DOMAIN v.f = {}

Lacks(v, key) ==
    v.t = "dict" /\ (key \notin DOMAIN v.f \/ IsEmpty(v.f[key]))

\* The first element of a list that is a JSON object.
HasFirstObject(v) == v.t = "list" /\ Len(v.xs) > 0 /\ v.xs[1].t = "dict"

\* The decoded value has candidates[0].content.parts[0].text, a string.
HasCompletion(v) ==
    /\ v.t = "dict" /\ "candidates" \in DOMAIN v.f
    /\ HasFirstObject(v.f["candidates"])
    /\ LET c == v.f["candidates"].xs[1]
       IN  /\ "content" \in DOMAIN c.f /\ c.f["content"].t = "dict"
           /\ "parts" \in DOMAIN c.f["content"].f
           /\ HasFirstObject(c.f["content"].f["parts"])
           /\ LET part == c.f["content"].f["parts"].xs[1]
              IN  "text" \in DOMAIN part.f /\ part.f["text"].t = "str"

CompletionText(v) ==
    v.f["candidates"].xs[1].f["content"].f["parts"].xs[1].f["text"].s

\* A JSON object in which candidates, the first candidate's content, or
\* that content's parts is missing or empty.
MissingLevel(v) ==
    \/ Lacks(v, "candidates")
    \/ /\ v.t = "dict" /\ "candidates" \in DOMAIN v.f
       /\ HasFirstObject(v.f["candidates"])
       /\ LET c == v.f["candidates"].xs[1]
          IN  \/ Lacks(c, "content")
              \/ /\ "content" \in DOMAIN c.f
                 /\ Lacks(c.f["content"], "parts")

\* A triple the run is done with: the loop went past it, or the run ended.
Finished(j) == j < i \/ pc = "done"

ScheduleExists(d) == ~Before([y |-> 9999, m |-> 11, d |-> 5], d)

-----------------------------------------------------------------------------
(* C7 *)

\* C7: the name field of every row submitted to the tracker is non-empty.
C7_NameNeverEmpty ==
    \A k \in 1..Len(attempts) : attempts[k].row[2] # <<>>

-----------------------------------------------------------------------------
(* C8 *)

RECURSIVE ParsableIdsBelow(_)
ParsableIdsBelow(n) ==
    IF n = 0 THEN <<>>
    ELSE IF Parsable(n - 1) THEN Append(ParsableIdsBelow(n - 1), n - 1)
    ELSE ParsableIdsBelow(n - 1)

\* C8: at the end of a run over a batch of well-formed length, the append
\* attempts are the triples with parsable dates, in source order, one
\* attempt each, each row with its own triple's topic and link.
C8_AttemptsAreParsableTriplesInOrder ==
    (pc = "done" /\ WellFormedBatch)
        => /\ [k \in 1..Len(attempts) |-> attempts[k].idx]
                = ParsableIdsBelow(TripleCount)
           /\ \A k \in 1..Len(attempts) :
                /\ attempts[k].row[1] = TopicOf(attempts[k].idx)
                /\ attempts[k].row[3] = LinkOf(attempts[k].idx)

-----------------------------------------------------------------------------
(* C9 *)

\* C9: at the end of a run, it never holds that the archived copy exists
\* while the original is still in place.
C9_MoveNotCopy ==
    pc = "done" => ~(CopyExists /\ OriginalExists)

-----------------------------------------------------------------------------
(* C10 *)

\* C10: at the end of a run over a batch of well-formed length, every
\* triple after a failed append was still processed (requested and its
\* append attempted, when its date parses), and the failed appends do not
\* count for archival: when appends were attempted and all of them failed,
\* the input is not archived.
C10_FailedAppendGoesOnAndDoesNotCount ==
    (pc = "done" /\ WellFormedBatch)
        => /\ \A k \in 1..Len(attempts) :
                ~attempts[k].ok
                    => \A j \in TripleIds :
                         (j > attempts[k].idx /\ Parsable(j))
                             => Requested(j) /\ Attempted(j)
           /\ (attempts # <<>> /\ \A k \in 1..Len(attempts) : ~attempts[k].ok)
                => ~Archived

====
